---- MODULE Spec2Model ----
(***************************************************************************)
(* delta-storage/sdk: the capability gate (isCommandAllowed,               *)
(* verifyAuthorizedCommand), the resource operations of DeltaStorageSDK    *)
(* (src/src/index.ts) and of the file module (src/src/file.ts), and the    *)
(* directory:change notification bridge.                                   *)
(***************************************************************************)
EXTENDS Integers, Sequences, FiniteSets, TLC

\* ---------------------------------------------------------------- bounds
MaxCalls == 2
MaxSubs == 2
MaxSignals == 2
MaxWatchers == 1

\* ------------------------------------------------- capability bits
\* OPERATION_SCOPE lives in ./constants, which is not part of the sources at
\* hand; the bits follow the order in which the specification lists them.
READ_FILE == 1
UPLOAD_FILE == 2
DELETE_FILE == 4
READ_DIRECTORY == 8
CREATE_DIRECTORY == 16
DELETE_DIRECTORY == 32
CapabilityBits == {READ_FILE, UPLOAD_FILE, DELETE_FILE, READ_DIRECTORY,
                   CREATE_DIRECTORY, DELETE_DIRECTORY}
AllBits == READ_FILE + UPLOAD_FILE + DELETE_FILE + READ_DIRECTORY
           + CREATE_DIRECTORY + DELETE_DIRECTORY

\* JavaScript's  a & b  on non-negative 32-bit operands.
RECURSIVE BitAnd(_, _)
BitAnd(a, b) ==
  IF a = 0 \/ b = 0 THEN 0
  ELSE (a % 2) * (b % 2) + 2 * BitAnd(a \div 2, b \div 2)

\* JavaScript's  a | b  on non-negative 32-bit operands.
RECURSIVE BitOr(_, _)
BitOr(a, b) ==
  IF a = 0 THEN b
  ELSE IF b = 0 THEN a
  ELSE (IF a % 2 = 1 \/ b % 2 = 1 THEN 1 ELSE 0) + 2 * BitOr(a \div 2, b \div 2)

\* --------------------------------------------------- authorization gate
isCommandAllowed_anyOverlap(s, flag) ==
  IF s = 0 THEN TRUE ELSE BitAnd(s, flag) # 0

isCommandAllowed(s, flag) ==
  IF s = 0 THEN TRUE ELSE BitAnd(s, flag) = flag

\* The outcome of a synchronous prefix of an operation: it either throws or
\* hands one request to axios.
NoRequest == [method |-> "", path |-> "", id |-> "", body |-> <<>>]
Throw(message) == [kind |-> "throw", error |-> message, request |-> NoRequest]
Issue(method, path, id, body) ==
  [kind |-> "request", error |-> "",
   request |-> [method |-> method, path |-> path, id |-> id, body |-> body]]

verifyAuthorizedCommand_silent(s, flag, message, continue) == continue

verifyAuthorizedCommand(s, flag, message, continue) ==
  IF ~isCommandAllowed(s, flag) THEN Throw(message) ELSE continue

\* ------------------------------------------------------------- inputs
Undefined == "undefined"
Ids == {"d1", "d2"}
OptIds == Ids \cup {Undefined}
Names == {"n"}
\* an optional string[] argument: absent, or the array passed
NoList == [given |-> FALSE, list |-> <<>>]
Given(list) == [given |-> TRUE, list |-> list]
StorageClassLists == {NoList, Given(<<>>), Given(<<"hot">>),
                      Given(<<"hot", "glacier">>)}
\* "a/b" as its characters
SegmentPaths == {<<"a", "/", "b">>}
Scopes == 0 .. AllBits
EdgeTokens == {"edge"}

\* id ?? ''
OrEmpty(id) == IF id = Undefined THEN "" ELSE id

\* JSON.stringify of an array of strings
RECURSIVE JoinQuoted(_)
JoinQuoted(list) ==
  IF list = <<>> THEN ""
  ELSE IF Len(list) = 1 THEN "\"" \o Head(list) \o "\""
  ELSE "\"" \o Head(list) \o "\"," \o JoinQuoted(Tail(list))

JSON_stringify(list) == "[" \o JoinQuoted(list) \o "]"

\* String.prototype.split('/') on a string given as its characters
RECURSIVE SplitAcc(_, _, _)
SplitAcc(chars, cur, acc) ==
  IF chars = <<>> THEN Append(acc, cur)
  ELSE IF Head(chars) = "/" THEN SplitAcc(Tail(chars), "", Append(acc, cur))
  ELSE SplitAcc(Tail(chars), cur \o Head(chars), acc)

split(chars) == SplitAcc(chars, "", <<>>)

\* Array.prototype.join(sep)
RECURSIVE join(_, _)
join(parts, sep) ==
  IF parts = <<>> THEN ""
  ELSE IF Len(parts) = 1 THEN Head(parts)
  ELSE Head(parts) \o sep \o join(Tail(parts), sep)

\* --------------------------------- resource operations, src/src/index.ts
readFile(s, id) ==
  verifyAuthorizedCommand(s, READ_FILE, "READ_FILE is not allowed.",
    Issue("GET", "/api/files/", OrEmpty(id), <<>>))

uploadFile(s, token, name, file, collectionName, directoryId) ==
  verifyAuthorizedCommand(s, UPLOAD_FILE, "UPLOAD_FILE is not allowed.",
    LET f0 == <<>>
        f1 == Append(f0, <<"name", name>>)
        f2 == Append(f1, <<"file", file>>)
        f3 == Append(f2, <<"collectionName", collectionName>>)
        f4 == Append(f3, <<"directoryId", directoryId>>)
        f5 == Append(f4, <<"edgeToken", token>>)
    IN Issue("POST", "/api/files/upload", "", f5))

deleteFile(s, id) ==
  verifyAuthorizedCommand(s, DELETE_FILE, "DELETE_FILE is not allowed.",
    Issue("DELETE", "/api/files/", id, <<>>))

renameFile_uploadOnly(s, id, name) ==
  verifyAuthorizedCommand(s, UPLOAD_FILE, "RENAME_FILE is not allowed.",
    Issue("PUT", "/api/files/", id, << <<"name", name>> >>))

renameFile(s, id, name) ==
  verifyAuthorizedCommand(s, BitOr(UPLOAD_FILE, DELETE_FILE),
    "RENAME_FILE is not allowed.",
    Issue("PUT", "/api/files/", id, << <<"name", name>> >>))

readDirectory(s, id) ==
  verifyAuthorizedCommand(s, READ_DIRECTORY, "READ_DIRECTORY is not allowed.",
    Issue("GET", "/api/directory/", OrEmpty(id), <<>>))

readDirectoryBySegment(s, segments) ==
  verifyAuthorizedCommand(s, READ_DIRECTORY, "READ_DIRECTORY is not allowed.",
    LET query == join(split(segments), "&segment=")
    IN Issue("GET", "/api/directory?segment=" \o query, "", <<>>))

createDirectory(s, name, parentDirectoryId) ==
  verifyAuthorizedCommand(s, CREATE_DIRECTORY,
    "CREATE_DIRECTORY is not allowed.",
    Issue("POST", "/api/directory/create", "",
          << <<"name", name>>, <<"parentDirectoryId", parentDirectoryId>> >>))

renameDirectory(s, id, name) ==
  verifyAuthorizedCommand(s, BitOr(CREATE_DIRECTORY, DELETE_DIRECTORY),
    "UPDATE_DIRECTORY is not allowed.",
    Issue("PUT", "/api/directory/", id, << <<"name", name>> >>))

move(s, parentId, childrenIds, childrenFileIds) ==
  verifyAuthorizedCommand(s, BitOr(CREATE_DIRECTORY, DELETE_DIRECTORY),
    "UPDATE_DIRECTORY is not allowed.",
    Issue("PUT", "/api/directory/", parentId,
          << <<"move", childrenIds>>, <<"moveFiles", childrenFileIds>> >>))

deleteDirectory(s, id) ==
  verifyAuthorizedCommand(s, DELETE_DIRECTORY,
    "DELETE_DIRECTORY is not allowed.",
    Issue("DELETE", "/api/directory/", id, <<>>))

getTotalSize(s) == Issue("GET", "/api/total-size", "", <<>>)

readDirectorySize(s, id) == Issue("GET", "/api/directory/:id/size", id, <<>>)

\* ---------------------------------- resource operations, src/src/file.ts
file_readFile(s, id) ==
  verifyAuthorizedCommand(s, READ_FILE, "READ_FILE is not allowed.",
    Issue("GET", "/files/", OrEmpty(id), <<>>))

file_uploadFile(s, name, file, collectionName, directoryId, storageClasses) ==
  verifyAuthorizedCommand(s, UPLOAD_FILE, "UPLOAD_FILE is not allowed.",
    LET f0 == <<>>
        f1 == Append(f0, <<"name", name>>)
        f2 == Append(f1, <<"file", file>>)
        f3 == Append(f2, <<"collectionName", collectionName>>)
        f4 == Append(f3, <<"directoryId", directoryId>>)
        f5 == IF storageClasses.given /\ Len(storageClasses.list) > 0
              THEN Append(f4, <<"storageClasses",
                                JSON_stringify(storageClasses.list)>>)
              ELSE f4
    IN Issue("POST", "/files/upload", "", f5))

file_deleteFile(s, id) ==
  verifyAuthorizedCommand(s, DELETE_FILE, "DELETE_FILE is not allowed.",
    Issue("DELETE", "/files/", id, <<>>))

file_renameFile(s, id, name) ==
  verifyAuthorizedCommand(s, BitOr(UPLOAD_FILE, DELETE_FILE),
    "RENAME_FILE is not allowed.",
    Issue("PUT", "/files/", id, << <<"name", name>> >>))

file_updateFile(s, id, name, storageClasses) ==
  verifyAuthorizedCommand(s, BitOr(UPLOAD_FILE, DELETE_FILE),
    "UPDATE_FILE is not allowed.",
    Issue("PUT", "/files/", id,
          << <<"name", name>>, <<"storageClasses", storageClasses>> >>))

\* ------------------------------------------------------------- state
VARIABLES
  scope,      \* this.scope, parsed once from the key
  edgeToken,  \* this.edgeToken
  gate,       \* the latest direct evaluation of isCommandAllowed
  calls,      \* number of resource operations invoked by the caller
  pending,    \* HTTP requests of the caller's invocations still in flight
  requests,   \* number of HTTP requests handed to axios so far
  permitted,  \* number of caller invocations that passed the gate
  last,       \* what the latest step did
  connected,  \* the socket is connected
  listeners,  \* handlers registered on 'directory:change', in order
  subs,       \* number of subscriptions made so far
  emitted,    \* events emitted to the server
  signals,    \* number of directory:change signals delivered
  refreshes,  \* refreshes started by signals
  cbLog       \* the invocations of each subscription's callback, in order

vars == <<scope, edgeToken, gate, calls, pending, requests, permitted, last,
          connected, listeners, subs, emitted, signals, refreshes, cbLog>>

clientVars == <<calls, pending, permitted>>
bridgeVars == <<connected, listeners, subs, emitted, signals, refreshes, cbLog>>

NoStep == [call |-> 0, op |-> "", event |-> "", error |-> "",
           request |-> NoRequest, classes |-> NoList, transport |-> "",
           value |-> "", sub |-> 0, signal |-> 0]

\* constructor: [_apiKeyId, scope, _userId, _hash, _edgeToken] = apiKey.split('.')
Init ==
  /\ scope \in Scopes
  /\ edgeToken \in EdgeTokens
  /\ gate = [called |-> FALSE, flag |-> 0, result |-> FALSE]
  /\ calls = 0
  /\ pending = {}
  /\ requests = 0
  /\ permitted = 0
  /\ last = NoStep
  /\ connected = FALSE
  /\ listeners = <<>>
  /\ subs = 0
  /\ emitted = <<>>
  /\ signals = 0
  /\ refreshes = {}
  /\ cbLog = [sub \in 1 .. MaxSubs |-> <<>>]

\* ------------------------------------------------- the gate on its own
ApplyGate ==
  /\ \E flag \in 0 .. AllBits :
       gate' = [called |-> TRUE, flag |-> flag,
                result |-> isCommandAllowed(scope, flag)]
  /\ UNCHANGED <<scope, edgeToken, calls, pending, requests, permitted, last,
                 connected, listeners, subs, emitted, signals, refreshes,
                 cbLog>>

\* ------------------------------------------- the caller's invocations
\* An async method runs up to its first await: the gate, then axios.
Invoke_twoRequests(op, classes, eff) ==
  /\ calls < MaxCalls
  /\ calls' = calls + 1
  /\ IF eff.kind = "throw"
     THEN /\ last' = [NoStep EXCEPT !.call = calls + 1, !.op = op,
                                    !.event = "denied", !.error = eff.error,
                                    !.classes = classes]
          /\ UNCHANGED <<pending, requests, permitted>>
     ELSE /\ pending' = pending \cup {[call |-> calls + 1, op |-> op]}
          /\ requests' = requests + 2
          /\ permitted' = permitted + 1
          /\ last' = [NoStep EXCEPT !.call = calls + 1, !.op = op,
                                    !.event = "issued",
                                    !.request = eff.request,
                                    !.classes = classes]
  /\ UNCHANGED <<scope, edgeToken, gate>>
  /\ UNCHANGED bridgeVars

Invoke(op, classes, eff) ==
  /\ calls < MaxCalls
  /\ calls' = calls + 1
  /\ IF eff.kind = "throw"
     THEN /\ last' = [NoStep EXCEPT !.call = calls + 1, !.op = op,
                                    !.event = "denied", !.error = eff.error,
                                    !.classes = classes]
          /\ UNCHANGED <<pending, requests, permitted>>
     ELSE /\ pending' = pending \cup {[call |-> calls + 1, op |-> op]}
          /\ requests' = requests + 1
          /\ permitted' = permitted + 1
          /\ last' = [NoStep EXCEPT !.call = calls + 1, !.op = op,
                                    !.event = "issued",
                                    !.request = eff.request,
                                    !.classes = classes]
  /\ UNCHANGED <<scope, edgeToken, gate>>
  /\ UNCHANGED bridgeVars

ReadFile == \E id \in OptIds : Invoke("readFile", NoList, readFile(scope, id))

UploadFile ==
  \E name \in Names, dir \in Ids :
    Invoke("uploadFile", NoList, uploadFile(scope, edgeToken, name, "blob", "c", dir))

DeleteFile == \E id \in Ids : Invoke("deleteFile", NoList, deleteFile(scope, id))

RenameFile ==
  \E id \in Ids, name \in Names :
    Invoke("renameFile", NoList, renameFile(scope, id, name))

ReadDirectory ==
  \E id \in OptIds : Invoke("readDirectory", NoList, readDirectory(scope, id))

ReadDirectoryBySegment ==
  \E segments \in SegmentPaths :
    Invoke("readDirectoryBySegment", NoList, readDirectoryBySegment(scope, segments))

CreateDirectory ==
  \E name \in Names, parent \in OptIds :
    Invoke("createDirectory", NoList, createDirectory(scope, name, parent))

RenameDirectory ==
  \E id \in Ids, name \in Names :
    Invoke("renameDirectory", NoList, renameDirectory(scope, id, name))

Move ==
  \E parent \in Ids, children \in {<<"d2">>}, files \in {NoList, Given(<<"f1">>)} :
    Invoke("move", NoList, move(scope, parent, children, files))

DeleteDirectory ==
  \E id \in Ids : Invoke("deleteDirectory", NoList, deleteDirectory(scope, id))

GetTotalSize == Invoke("getTotalSize", NoList, getTotalSize(scope))

ReadDirectorySize ==
  \E id \in Ids : Invoke("readDirectorySize", NoList, readDirectorySize(scope, id))

FileReadFile ==
  \E id \in OptIds : Invoke("file.readFile", NoList, file_readFile(scope, id))

FileUploadFile ==
  \E name \in Names, dir \in Ids, classes \in StorageClassLists :
    Invoke("file.uploadFile", classes,
           file_uploadFile(scope, name, "blob", "c", dir, classes))

FileDeleteFile ==
  \E id \in Ids : Invoke("file.deleteFile", NoList, file_deleteFile(scope, id))

FileRenameFile ==
  \E id \in Ids, name \in Names :
    Invoke("file.renameFile", NoList, file_renameFile(scope, id, name))

FileUpdateFile ==
  \E id \in Ids, name \in Names, classes \in StorageClassLists :
    Invoke("file.updateFile", classes, file_updateFile(scope, id, name, classes))

\* what the awaited axios promise settles to
Responses == {[ok |-> TRUE, error |-> ""], [ok |-> FALSE, error |-> "Network Error"]}

\* the value an operation returns from a fulfilled response
Unwrap(op) ==
  IF op \in {"getTotalSize", "readDirectorySize"}
  THEN "result.data.totalSize" ELSE "response"

\* The transport settles a caller's request; the operation settles with it.
Respond_retry ==
  \E p \in pending, r \in Responses :
    /\ IF r.ok
       THEN /\ pending' = pending \ {p}
            /\ requests' = requests
            /\ last' = [NoStep EXCEPT !.call = p.call, !.op = p.op,
                                      !.event = "resolved",
                                      !.transport = "fulfilled",
                                      !.value = Unwrap(p.op)]
       ELSE /\ pending' = pending
            /\ requests' = requests + 1
            /\ last' = [NoStep EXCEPT !.call = p.call, !.op = p.op,
                                      !.event = "retried",
                                      !.transport = r.error]
    /\ UNCHANGED <<scope, edgeToken, gate, calls, permitted>>
    /\ UNCHANGED bridgeVars

Respond ==
  \E p \in pending, r \in Responses :
    /\ pending' = pending \ {p}
    /\ last' = IF r.ok
               THEN [NoStep EXCEPT !.call = p.call, !.op = p.op,
                                   !.event = "resolved",
                                   !.transport = "fulfilled",
                                   !.value = Unwrap(p.op)]
               ELSE [NoStep EXCEPT !.call = p.call, !.op = p.op,
                                   !.event = "rejected",
                                   !.transport = r.error, !.error = r.error]
    /\ UNCHANGED <<scope, edgeToken, gate, calls, permitted, requests>>
    /\ UNCHANGED bridgeVars

ClientNext ==
  \/ ReadFile \/ UploadFile \/ DeleteFile \/ RenameFile
  \/ ReadDirectory \/ ReadDirectoryBySegment \/ CreateDirectory
  \/ RenameDirectory \/ Move \/ DeleteDirectory
  \/ GetTotalSize \/ ReadDirectorySize
  \/ FileReadFile \/ FileUploadFile \/ FileDeleteFile \/ FileRenameFile
  \/ FileUpdateFile
  \/ Respond

ClientSpec == Init /\ [][ClientNext]_vars

GateSpec == Init /\ [][ApplyGate]_vars

\* ------------------------------------------- the notification bridge
\* a handler registered on 'directory:change'
Listener(sub, kind, id, segments) ==
  [sub |-> sub, kind |-> kind, id |-> id, segments |-> segments]

\* one invocation of a caller's callback
Invocation(sub, signal, kind, request) ==
  [sub |-> sub, signal |-> signal, kind |-> kind,
   path |-> request.path, id |-> request.id]

\* this.listener.connect()
Connect ==
  /\ ~connected
  /\ connected' = TRUE
  /\ last' = NoStep
  /\ UNCHANGED <<scope, edgeToken, gate, requests, listeners, subs, emitted,
                 signals, refreshes, cbLog>>
  /\ UNCHANGED clientVars

\* this.listener.disconnect()
Disconnect ==
  /\ connected
  /\ connected' = FALSE
  /\ last' = NoStep
  /\ UNCHANGED <<scope, edgeToken, gate, requests, listeners, subs, emitted,
                 signals, refreshes, cbLog>>
  /\ UNCHANGED clientVars

\* this.listener.off('directory:change')
DisconnectReadDirectoryEvent_cancels ==
  /\ listeners # <<>>
  /\ listeners' = <<>>
  /\ refreshes' = {r \in refreshes : r.status # "pending"}
  /\ last' = NoStep
  /\ UNCHANGED <<scope, edgeToken, gate, requests, connected, subs, emitted,
                 signals, cbLog>>
  /\ UNCHANGED clientVars

DisconnectReadDirectoryEvent_lastOnly ==
  /\ listeners # <<>>
  /\ listeners' = SubSeq(listeners, 1, Len(listeners) - 1)
  /\ last' = NoStep
  /\ UNCHANGED <<scope, edgeToken, gate, requests, connected, subs, emitted,
                 signals, refreshes, cbLog>>
  /\ UNCHANGED clientVars

DisconnectReadDirectoryEvent ==
  /\ listeners # <<>>
  /\ listeners' = <<>>
  /\ last' = NoStep
  /\ UNCHANGED <<scope, edgeToken, gate, requests, connected, subs, emitted,
                 signals, refreshes, cbLog>>
  /\ UNCHANGED clientVars

\* this.listener.on('directory:change', handler)
onDirectoryChange(ls, handler) == Append(ls, handler)

\* this.listener.emit(event, ...args)
emit(log, event, args, registered) ==
  Append(log, [event |-> event, args |-> args, subs |-> registered])

Subscribe(handler, emits) ==
  /\ subs < MaxSubs
  /\ subs' = subs + 1
  /\ emitted' = emits
  /\ listeners' = onDirectoryChange(listeners, handler)
  /\ last' = NoStep
  /\ UNCHANGED <<scope, edgeToken, gate, requests, connected, signals,
                 refreshes, cbLog>>
  /\ UNCHANGED clientVars

OnDirectoryChange ==
  Subscribe(Listener(subs + 1, "callback", "", <<>>), emitted)

OnTotalSizeChange ==
  Subscribe(Listener(subs + 1, "totalSize", "", <<>>), emitted)

OnReadDirectoryEvent ==
  \E id \in Ids :
    Subscribe(Listener(subs + 1, "readDirectory", id, <<>>),
              emit(emitted, "directory:initialize", <<>>, subs))

OnReadDirectorySegmentChange ==
  \E segments \in SegmentPaths :
    Subscribe(Listener(subs + 1, "segment", "", segments), emitted)

\* the call a refresh handler makes before its await
HandlerCall(s, l) ==
  CASE l.kind = "totalSize" -> getTotalSize(s)
    [] l.kind = "readDirectory" -> readDirectory(s, l.id)
    [] l.kind = "segment" -> readDirectoryBySegment(s, l.segments)

Refresh(l, signal, status, request) ==
  [sub |-> l.sub, signal |-> signal, kind |-> l.kind, status |-> status,
   request |-> request]

RECURSIVE RunListeners_coalesce(_, _, _, _)
RunListeners_coalesce(ls, s, signal, acc) ==
  IF ls = <<>> THEN acc
  ELSE LET l == Head(ls)
           eff == HandlerCall(s, l)
           busy == \E r \in acc.refreshes :
                     r.sub = l.sub /\ r.status = "pending"
           next ==
             IF l.kind = "callback"
             THEN [acc EXCEPT !.cbLog[l.sub] =
                     Append(@, Invocation(l.sub, signal, l.kind, NoRequest))]
             ELSE IF busy THEN acc
             ELSE IF eff.kind = "throw"
             THEN [acc EXCEPT !.refreshes =
                     @ \cup {Refresh(l, signal, "denied", NoRequest)}]
             ELSE [acc EXCEPT !.refreshes =
                     @ \cup {Refresh(l, signal, "pending", eff.request)},
                              !.requests = @ + 1]
       IN RunListeners_coalesce(Tail(ls), s, signal, next)

\* The emitter calls the registered handlers in order; a plain callback runs,
\* a refresh handler runs up to its await.
RECURSIVE RunListeners(_, _, _, _)
RunListeners(ls, s, signal, acc) ==
  IF ls = <<>> THEN acc
  ELSE LET l == Head(ls)
           eff == HandlerCall(s, l)
           next ==
             IF l.kind = "callback"
             THEN [acc EXCEPT !.cbLog[l.sub] =
                     Append(@, Invocation(l.sub, signal, l.kind, NoRequest))]
             ELSE IF eff.kind = "throw"
             THEN [acc EXCEPT !.refreshes =
                     @ \cup {Refresh(l, signal, "denied", NoRequest)}]
             ELSE [acc EXCEPT !.refreshes =
                     @ \cup {Refresh(l, signal, "pending", eff.request)},
                              !.requests = @ + 1]
       IN RunListeners(Tail(ls), s, signal, next)

\* the server's 'directory:change' reaches the socket
Signal ==
  /\ connected
  /\ signals < MaxSignals
  /\ signals' = signals + 1
  /\ LET out == RunListeners(listeners, scope, signals + 1,
                             [cbLog |-> cbLog, refreshes |-> refreshes,
                              requests |-> requests])
     IN /\ cbLog' = out.cbLog
        /\ refreshes' = out.refreshes
        /\ requests' = out.requests
  /\ last' = NoStep
  /\ UNCHANGED <<scope, edgeToken, gate, connected, listeners, subs, emitted>>
  /\ UNCHANGED clientVars

SettleRefresh_dropsStale(sub, signal) ==
  \E r \in refreshes, resp \in Responses :
    /\ r.sub = sub /\ r.signal = signal /\ r.status = "pending"
    /\ IF resp.ok
       THEN /\ refreshes' = (refreshes \ {r})
                              \cup {[r EXCEPT !.status = "fulfilled"]}
            /\ cbLog' = IF \E i \in DOMAIN cbLog[r.sub] :
                             cbLog[r.sub][i].signal > r.signal
                        THEN cbLog
                        ELSE [cbLog EXCEPT ![r.sub] =
                                Append(@, Invocation(r.sub, r.signal, r.kind,
                                                     r.request))]
            /\ last' = [NoStep EXCEPT !.event = "callback", !.sub = r.sub,
                                      !.signal = r.signal,
                                      !.transport = "fulfilled"]
       ELSE /\ refreshes' = (refreshes \ {r})
                              \cup {[r EXCEPT !.status = "rejected"]}
            /\ cbLog' = cbLog
            /\ last' = [NoStep EXCEPT !.event = "unhandled", !.sub = r.sub,
                                      !.signal = r.signal,
                                      !.transport = resp.error,
                                      !.error = resp.error]
    /\ UNCHANGED <<scope, edgeToken, gate, requests, connected, listeners,
                   subs, emitted, signals>>
    /\ UNCHANGED clientVars

\* The awaited request of a refresh settles: fulfilled, the handler passes
\* the data to the caller's callback; rejected, the handler's promise rejects.
SettleRefresh(sub, signal) ==
  \E r \in refreshes, resp \in Responses :
    /\ r.sub = sub /\ r.signal = signal /\ r.status = "pending"
    /\ IF resp.ok
       THEN /\ refreshes' = (refreshes \ {r})
                              \cup {[r EXCEPT !.status = "fulfilled"]}
            /\ cbLog' = [cbLog EXCEPT ![r.sub] =
                          Append(@, Invocation(r.sub, r.signal, r.kind,
                                               r.request))]
            /\ last' = [NoStep EXCEPT !.event = "callback", !.sub = r.sub,
                                      !.signal = r.signal,
                                      !.transport = "fulfilled"]
       ELSE /\ refreshes' = (refreshes \ {r})
                              \cup {[r EXCEPT !.status = "rejected"]}
            /\ cbLog' = cbLog
            /\ last' = [NoStep EXCEPT !.event = "unhandled", !.sub = r.sub,
                                      !.signal = r.signal,
                                      !.transport = resp.error,
                                      !.error = resp.error]
    /\ UNCHANGED <<scope, edgeToken, gate, requests, connected, listeners,
                   subs, emitted, signals>>
    /\ UNCHANGED clientVars

RespondRefresh ==
  \E sub \in 1 .. MaxSubs, signal \in 1 .. MaxSignals :
    SettleRefresh(sub, signal)

BridgeNext ==
  \/ Connect \/ Disconnect \/ DisconnectReadDirectoryEvent
  \/ OnDirectoryChange \/ OnTotalSizeChange \/ OnReadDirectoryEvent
  \/ OnReadDirectorySegmentChange
  \/ Signal \/ RespondRefresh

\* keys watched with: unrestricted, no directory capability, READ_DIRECTORY
WatchScopes == {0, READ_FILE + UPLOAD_FILE, READ_DIRECTORY}

BridgeInit == Init /\ scope \in WatchScopes

BridgeSpec == BridgeInit /\ [][BridgeNext]_vars

\* a session that subscribes, unsubscribes and receives signals, seen up to
\* the requests its handlers start
MultiplexNext ==
  \/ Connect \/ DisconnectReadDirectoryEvent
  \/ OnDirectoryChange \/ OnTotalSizeChange \/ OnReadDirectoryEvent
  \/ OnReadDirectorySegmentChange
  \/ Signal

MultiplexSpec == BridgeInit /\ [][MultiplexNext]_vars

\* a session with at most MaxWatchers refresh subscriptions
WatchTotalSize == subs < MaxWatchers /\ OnTotalSizeChange
WatchDirectory == subs < MaxWatchers /\ OnReadDirectoryEvent
WatchSegments == subs < MaxWatchers /\ OnReadDirectorySegmentChange

RefreshNext ==
  \/ Connect \/ Disconnect \/ DisconnectReadDirectoryEvent
  \/ WatchTotalSize \/ WatchDirectory \/ WatchSegments
  \/ Signal \/ RespondRefresh

RefreshSpec == BridgeInit /\ [][RefreshNext]_vars

\* a session that only watches directories with onReadDirectoryEvent
WatchNext ==
  \/ Connect \/ DisconnectReadDirectoryEvent \/ WatchDirectory
  \/ Signal \/ RespondRefresh

\* keys watched with: no directory capability, READ_DIRECTORY
WatchInit == Init /\ scope \in {READ_FILE + UPLOAD_FILE, READ_DIRECTORY}

WatchSpec == WatchInit /\ [][WatchNext]_vars

\* the transport settles every request it was handed
WatchFairness ==
  \A sub \in 1 .. MaxWatchers, signal \in 1 .. MaxSignals :
    WF_vars(SettleRefresh(sub, signal))

FairWatchSpec == WatchSpec /\ WatchFairness

Next == ApplyGate \/ ClientNext \/ BridgeNext

Spec == Init /\ [][Next]_vars

\* ------------------------------------------------------------ claims
\* the capability bits set in n
BitsOf(n) == {b \in CapabilityBits : (n \div b) % 2 = 1}

\* the required-mask table of the specification, by operation
TableBits(op) ==
  CASE op \in {"readFile", "file.readFile"} -> {READ_FILE}
    [] op \in {"uploadFile", "file.uploadFile"} -> {UPLOAD_FILE}
    [] op \in {"deleteFile", "file.deleteFile"} -> {DELETE_FILE}
    [] op \in {"renameFile", "file.renameFile", "file.updateFile"} ->
         {UPLOAD_FILE, DELETE_FILE}
    [] op \in {"readDirectory", "readDirectoryBySegment"} -> {READ_DIRECTORY}
    [] op = "createDirectory" -> {CREATE_DIRECTORY}
    [] op \in {"renameDirectory", "move"} -> {CREATE_DIRECTORY, DELETE_DIRECTORY}
    [] op = "deleteDirectory" -> {DELETE_DIRECTORY}
    [] op \in {"getTotalSize", "readDirectorySize"} -> {}

RECURSIVE SumOf(_)
SumOf(S) == IF S = {} THEN 0 ELSE LET b == CHOOSE x \in S : TRUE
                                  IN b + SumOf(S \ {b})

TableMask(op) == SumOf(TableBits(op))

GatedOps == {"readFile", "uploadFile", "deleteFile", "renameFile",
             "readDirectory", "readDirectoryBySegment", "createDirectory",
             "renameDirectory", "move", "deleteDirectory",
             "file.readFile", "file.uploadFile", "file.deleteFile",
             "file.renameFile", "file.updateFile"}

\* the fixed denial message of each gated operation
DenialMessage(op) ==
  CASE op \in {"readFile", "file.readFile"} -> "READ_FILE is not allowed."
    [] op \in {"uploadFile", "file.uploadFile"} -> "UPLOAD_FILE is not allowed."
    [] op \in {"deleteFile", "file.deleteFile"} -> "DELETE_FILE is not allowed."
    [] op \in {"renameFile", "file.renameFile"} -> "RENAME_FILE is not allowed."
    [] op = "file.updateFile" -> "UPDATE_FILE is not allowed."
    [] op \in {"readDirectory", "readDirectoryBySegment"} ->
         "READ_DIRECTORY is not allowed."
    [] op = "createDirectory" -> "CREATE_DIRECTORY is not allowed."
    [] op \in {"renameDirectory", "move"} -> "UPDATE_DIRECTORY is not allowed."
    [] op = "deleteDirectory" -> "DELETE_DIRECTORY is not allowed."

\* C1: the gate returns true exactly when the granted scope is 0 or every
\* capability bit of the required mask is set in the granted scope; so scope
\* 0 passes every mask, the mask of all bits included, and a nonzero scope
\* that only overlaps the mask is refused.
C1_GateIsSupersetOrZero ==
  gate.called =>
    /\ gate.result = (scope = 0 \/ BitsOf(gate.flag) \subseteq BitsOf(scope))
    /\ (scope = 0 => gate.result)
    /\ (scope # 0 /\ BitsOf(gate.flag) \ BitsOf(scope) # {} => ~gate.result)

C1_Witness ==
  /\ gate.called
  /\ scope # 0
  /\ BitsOf(gate.flag) \cap BitsOf(scope) # {}
  /\ BitsOf(gate.flag) \ BitsOf(scope) # {}
  /\ ~gate.result

\* C2: an invocation of a gated operation whose required mask the gate
\* denies fails with that operation's denial message, and it issues no HTTP
\* request.
C2_DeniedFailsBeforeTransport ==
  [][\A op \in GatedOps :
       (calls' = calls + 1 /\ last'.op = op
          /\ ~isCommandAllowed(scope, TableMask(op)))
       => /\ last'.event = "denied"
          /\ last'.error = DenialMessage(op)
          /\ requests' = requests
          /\ pending' = pending]_vars

C2_Witness ==
  /\ scope = 3
  /\ last.op = "deleteDirectory"
  /\ last.event = "denied"
  /\ last.error = "DELETE_DIRECTORY is not allowed."
  /\ calls = 2
  /\ requests = 1

\* C3: an invocation reaches its HTTP call exactly when the gate allows the
\* operation's mask of the table; the two size queries are never denied.
C3_GatedByTableMask ==
  /\ last.event \in {"issued", "denied"} =>
       (last.event = "issued") = isCommandAllowed(scope, TableMask(last.op))
  /\ last.op \in {"getTotalSize", "readDirectorySize"} => last.event # "denied"
  /\ (scope = UPLOAD_FILE /\ last.op \in {"renameFile", "file.renameFile",
                                          "file.updateFile"}) =>
       last.event = "denied"

C3_Witness ==
  /\ scope = UPLOAD_FILE
  /\ last.op = "file.updateFile"
  /\ last.event = "denied"
  /\ calls = 2
  /\ requests = 1

\* C4: every gate-permitted invocation issues exactly one HTTP request and
\* settles with what the transport settled to: the number of requests equals
\* the number of permitted invocations, a response never starts another
\* request, and a failed request fails the operation with that failure.
C4_OneRequestPerPermittedCall ==
  /\ [](requests = permitted)
  /\ [][/\ (calls' = calls + 1 /\ last'.event = "issued") =>
             /\ requests' = requests + 1
             /\ pending' = pending \cup {[call |-> calls', op |-> last'.op]}
        /\ calls' = calls /\ last' # last =>
             /\ requests' = requests
             /\ [call |-> last'.call, op |-> last'.op] \in pending
             /\ pending' = pending \ {[call |-> last'.call, op |-> last'.op]}
             /\ last'.event \in {"resolved", "rejected"}
             /\ (last'.event = "resolved") = (last'.transport = "fulfilled")
             /\ last'.event = "rejected" =>
                  last'.error = last'.transport /\ last'.error # ""]_vars

C4_Witness ==
  /\ requests = 2
  /\ permitted = 2
  /\ pending = {}
  /\ last.event = "rejected"
  /\ last.error = "Network Error"

\* the names of the fields of a multipart payload
FieldNames(body) == {body[i][1] : i \in DOMAIN body}

\* C8: a permitted uploadFile sends a payload whose fields are exactly name,
\* file, collectionName, directoryId, edgeToken, plus storageClasses when a
\* nonempty list is given.
C8_UploadPayloadFields ==
  (last.event = "issued" /\ last.op \in {"uploadFile", "file.uploadFile"}) =>
    /\ FieldNames(last.request.body) =
         {"name", "file", "collectionName", "directoryId", "edgeToken"}
         \cup (IF last.classes.given /\ last.classes.list # <<>>
               THEN {"storageClasses"} ELSE {})
    /\ \E i \in DOMAIN last.request.body :
         last.request.body[i] = <<"edgeToken", edgeToken>>

\* ---- the bridge
RefreshKinds == {"totalSize", "readDirectory", "segment"}

\* the refreshes started for subscription sub
RefreshesOf(sub) == {r \in refreshes : r.sub = sub}

\* the positions of subscription sub's log
CallsOf(sub) == DOMAIN cbLog[sub]

\* some callback of subscription sub ran for a later signal before it ran for
\* an earlier one
OutOfOrder(kind) ==
  \E sub \in 1 .. MaxSubs :
    \E i, j \in DOMAIN cbLog[sub] :
      /\ i < j
      /\ cbLog[sub][i].kind = kind /\ cbLog[sub][j].kind = kind
      /\ cbLog[sub][i].signal > cbLog[sub][j].signal

\* C5 as stated: once no refresh of an onReadDirectoryEvent subscription is
\* in flight, its callback has run at least once per signal delivered to it.
C5_CallbackPerSignal ==
  \A sub \in 1 .. MaxSubs :
    (/\ \A r \in RefreshesOf(sub) : r.kind = "readDirectory"
     /\ \A r \in RefreshesOf(sub) : r.status # "pending")
    => Cardinality(CallsOf(sub)) >= Cardinality(RefreshesOf(sub))

\* C5 amended: every signal delivered while an onReadDirectoryEvent handler
\* is registered starts one refresh for it; every such refresh that the gate
\* permits is eventually settled, and the callback has run exactly once for
\* each refresh whose request was fulfilled, in whatever order the refreshes
\* complete; a denied or failed refresh runs no callback.
C5_CallbackPerFulfilledRefresh ==
  /\ [][signals' = signals + 1 =>
          \A i \in DOMAIN listeners :
            listeners[i].kind = "readDirectory" =>
              \E r \in refreshes' \ refreshes :
                /\ r.sub = listeners[i].sub /\ r.signal = signals'
                /\ r.status # "denied" => r.request.id = listeners[i].id]_vars
  /\ [](\A r \in refreshes : r.kind = "readDirectory" =>
          /\ (r.status = "denied") = ~isCommandAllowed(scope, READ_DIRECTORY)
          /\ Cardinality({i \in DOMAIN cbLog[r.sub] :
                            cbLog[r.sub][i].signal = r.signal})
               = (IF r.status = "fulfilled" THEN 1 ELSE 0))
  /\ \A sub \in 1 .. MaxWatchers, signal \in 1 .. MaxSignals :
       (\E r \in refreshes : /\ r.sub = sub /\ r.signal = signal
                             /\ r.kind = "readDirectory"
                             /\ r.status = "pending")
       ~> (\E r \in refreshes : /\ r.sub = sub /\ r.signal = signal
                                /\ r.status \in {"fulfilled", "rejected"})

C5_Witness ==
  /\ OutOfOrder("readDirectory")
  /\ \E sub \in 1 .. MaxSubs :
       /\ Len(cbLog[sub]) = 2
       /\ Cardinality(RefreshesOf(sub)) = 2
       /\ \A r \in RefreshesOf(sub) :
            r.kind = "readDirectory" /\ r.status = "fulfilled"

\* C6: a subscription adds one listener whatever is registered already; a
\* delivered signal runs every registered listener and nothing else;
\* disconnectReadDirectoryEvent leaves no listener registered, and a signal
\* delivered while none is registered runs no callback and starts no refresh.
C6_ListenersMultiplexAndOffRemovesAll ==
  [][/\ subs' = subs + 1 =>
          /\ Len(listeners') = Len(listeners) + 1
          /\ SubSeq(listeners', 1, Len(listeners)) = listeners
     /\ (subs' = subs /\ listeners' # listeners) => listeners' = <<>>
     /\ signals' = signals + 1 =>
          /\ \A i \in DOMAIN listeners :
               IF listeners[i].kind = "callback"
               THEN /\ Len(cbLog'[listeners[i].sub]) =
                         Len(cbLog[listeners[i].sub]) + 1
                    /\ cbLog'[listeners[i].sub][Len(cbLog'[listeners[i].sub])]
                         .signal = signals'
               ELSE \E r \in refreshes' \ refreshes :
                      r.sub = listeners[i].sub /\ r.signal = signals'
          /\ \A sub \in 1 .. MaxSubs :
               cbLog'[sub] # cbLog[sub] =>
                 \E i \in DOMAIN listeners :
                   listeners[i].sub = sub /\ listeners[i].kind = "callback"
          /\ Cardinality(refreshes' \ refreshes) =
               Cardinality({i \in DOMAIN listeners :
                              listeners[i].kind # "callback"})
          /\ listeners = <<>> =>
               /\ cbLog' = cbLog
               /\ refreshes' = refreshes
               /\ requests' = requests]_vars

C6_Witness ==
  /\ signals = 2
  /\ listeners = <<>>
  /\ \E sub \in 1 .. MaxSubs :
       cbLog[sub] # <<>> /\ cbLog[sub][1].kind = "callback"
                         /\ cbLog[sub][1].signal = 1
  /\ \E r \in refreshes : r.signal = 1
  /\ \A sub \in 1 .. MaxSubs :
       \A i \in DOMAIN cbLog[sub] : cbLog[sub][i].signal # 2
  /\ \A r \in refreshes : r.signal # 2

\* C7: onReadDirectoryEvent(id, callback) emits directory:initialize naming
\* directory id before it registers its handler, and every refresh and every
\* callback of that handler is for directory id.
C7_InitializeNamesDirectoryThenRegisters ==
  /\ \A i \in DOMAIN listeners :
       listeners[i].kind = "readDirectory" =>
         \E e \in DOMAIN emitted :
           /\ emitted[e].event = "directory:initialize"
           /\ emitted[e].subs < listeners[i].sub
           /\ emitted[e].subs = listeners[i].sub - 1
           /\ emitted[e].args = <<listeners[i].id>>
  /\ \A i \in DOMAIN listeners, r \in refreshes :
       (listeners[i].kind = "readDirectory" /\ r.sub = listeners[i].sub
          /\ r.status # "denied")
       => r.request.path = "/api/directory/" /\ r.request.id = listeners[i].id
  /\ \A i \in DOMAIN listeners :
       listeners[i].kind = "readDirectory" =>
         \A j \in DOMAIN cbLog[listeners[i].sub] :
           /\ cbLog[listeners[i].sub][j].path = "/api/directory/"
           /\ cbLog[listeners[i].sub][j].id = listeners[i].id

\* C9 as stated: every refresh started by a signal has issued its request, so
\* k signals delivered to a refresh subscription make k requests.
C9_RequestPerSignal ==
  /\ requests = Cardinality(refreshes)
  /\ \A r \in refreshes : r.request # NoRequest

\* C9 amended: every signal starts one refresh of its own for each registered
\* refresh subscription, which issues one request exactly when the gate
\* permits the refresh's operation; a signal neither merges with nor cancels
\* a refresh in flight, and a refresh leaves flight only by its own response.
C9_IndependentRefreshPerSignal ==
  [][/\ signals' = signals + 1 =>
          /\ refreshes \subseteq refreshes'
          /\ \A i \in DOMAIN listeners :
               listeners[i].kind \in RefreshKinds =>
                 \E r \in refreshes' \ refreshes :
                   /\ r.sub = listeners[i].sub
                   /\ r.signal = signals'
                   /\ (r.status = "pending") =
                        (listeners[i].kind = "totalSize"
                           \/ isCommandAllowed(scope, READ_DIRECTORY))
                   /\ r.status \in {"pending", "denied"}
          /\ requests' - requests =
               Cardinality({r \in refreshes' \ refreshes :
                              r.status = "pending"})
     /\ \A r \in refreshes :
          (r.status = "pending" /\ r \notin refreshes') =>
            /\ last'.event \in {"callback", "unhandled"}
            /\ last'.sub = r.sub /\ last'.signal = r.signal
            /\ \E st \in {"fulfilled", "rejected"} :
                 refreshes' = (refreshes \ {r}) \cup {[r EXCEPT !.status = st]}]_vars

C9_Witness ==
  /\ OutOfOrder("totalSize")
  /\ requests = 2
  /\ signals = 2
  /\ last.event = "callback"
  /\ last.signal = 1

\* C10: removing the listeners or disconnecting the socket leaves the
\* refreshes in flight as they are, and a refresh whose request is fulfilled
\* runs the caller's callback whether or not a listener is still registered.
C10_UnsubscribeKeepsRefreshesInFlight ==
  [][/\ ((subs' = subs /\ listeners' # listeners)
            \/ (connected /\ ~connected')) =>
          refreshes' = refreshes /\ cbLog' = cbLog
     /\ \A r \in refreshes :
          (/\ r.status = "pending"
           /\ [r EXCEPT !.status = "fulfilled"] \in refreshes') =>
            /\ Len(cbLog'[r.sub]) = Len(cbLog[r.sub]) + 1
            /\ cbLog'[r.sub][Len(cbLog'[r.sub])].signal = r.signal]_vars

C10_Witness ==
  /\ last.event = "callback"
  /\ listeners = <<>>
  /\ ~connected
  /\ \E r \in refreshes : r.sub = last.sub /\ r.status = "fulfilled"

====
